---- MODULE Spec2Model ----
(***************************************************************************)
(* migxattrs: moves files from one CephFS data pool to another by          *)
(* rewriting every file of the source pool into a sibling "<path>.mig"     *)
(* tagged with the destination pool and renaming it over the original.     *)
(*                                                                         *)
(* The model follows src/main.go: main() (analysis pass, gate, prompt,     *)
(* second pass over the scan file) and migrateFile(), one action per       *)
(* system call of migrateFile.  The filesystem is a function from paths to *)
(* objects; every system call may fail (fault injection), and a failed     *)
(* call leaves the filesystem as it was.  The program is single-threaded   *)
(* and nothing else changes the tree while it runs; when a run has ended   *)
(* the tool may be started again on the tree the run left behind.          *)
(***************************************************************************)
EXTENDS Naturals, Sequences, FiniteSets, TLC

----------------------------------------------------------------------------
(* Program constants *)

XATTR_KEY == "ceph.file.layout.pool"
SRC_POOL  == "cephfs.ibu.data_ec42"
DST_POOL  == "cephfs.ibu.data_ec82"
SCAN_FILE == "pool_scan.tab"

(* Bounds of the model *)
MaxLines == 2        \* lines of the scan file

----------------------------------------------------------------------------
(* The environment: the tree below CEPH_ROOT_DIR, the process *)

cephRoot   == "/r"
THIRD_POOL == "cephfs.other"          \* a pool that is neither source nor destination
WS         == " "                     \* a run of white space inside a line

Now      == "now"                     \* time.Now() during the run
OldTime  == "t0"                      \* a modification time before the run
ProcUid  == "root"                    \* uid and gid of the migrating process
ProcGid  == "root"
Umask    == {"gw"}                    \* permission bits the process umask clears

None == [kind |-> "none", data |-> <<>>, pool |-> "", mode |-> {},
         uid |-> "", gid |-> "", mtime |-> ""]

Dir  == [kind |-> "dir", data |-> <<>>, pool |-> SRC_POOL, mode |-> {"ur", "uw"},
         uid |-> ProcUid, gid |-> ProcGid, mtime |-> OldTime]

\* A regular file ("file") or an object that is neither a regular file nor
\* a directory ("other": a special file, or a symbolic link, which os.Stat,
\* getxattr and os.Open follow; data and pool are what is read through it).
Obj(k, d, p, m, u, g) ==
    [kind |-> k, data |-> d, pool |-> p, mode |-> m, uid |-> u, gid |-> g,
     mtime |-> OldTime]

\* filepath.Join(cephRoot, fields[1]); the scan file names "a" and "a.mig",
\* so that the temporary sibling of one record is the path of another
Join(root, rel) == root \o "/" \o rel
AllPaths == {Join(cephRoot, "a"), Join(cephRoot, "a.mig"), Join(cephRoot, "a.mig.mig")}

\* what may be found at a path named by the scan file before the first run
InitObjs ==
    { None, Dir,
      Obj("file",  <<"x">>,      SRC_POOL, {"ur", "gw"}, "alice", "staff"),
      Obj("file",  <<"y", "z">>, DST_POOL, {"ur", "uw"}, ProcUid, ProcGid),
      Obj("other", <<"w">>,      SRC_POOL, {"ur", "uw"}, "alice", "staff") }

\* what may be found at "a.mig.mig"
InitLeaf == { None }

\* lines of the scan file, as sequences of words and white space
Lines ==
    { <<WS, SRC_POOL>>,
      <<SRC_POOL, WS, "a">>,
      <<SRC_POOL, WS, "a.mig">>,
      <<WS, DST_POOL, WS, "a", WS, "x">>,
      <<THIRD_POOL, WS, WS, "a">> }

ScanFiles == UNION { [1..n -> Lines] : n \in 0..MaxLines }

----------------------------------------------------------------------------
(* Pure helpers *)

\* strings.Fields: the words of a line, white space dropped
Fields(line) == SelectSeq(line, LAMBDA w : w # WS)

\* path + ".mig"
tmpPath_inplace(path) == path
tmpPath(path) == path \o ".mig"

\* os.Stat: the metadata snapshot of an object; the value behind Sys() is
\* the *syscall.Stat_t package os fills in
FileInfo(o) ==
    [size |-> Len(o.data), mode |-> o.mode, uid |-> o.uid, gid |-> o.gid,
     mtime |-> o.mtime, isDir |-> (o.kind = "dir"), sys |-> "syscall.Stat_t"]

NoInfo == [size |-> 0, mode |-> {}, uid |-> "", gid |-> "", mtime |-> "",
           isDir |-> FALSE, sys |-> ""]

\* poolStats[SRC_POOL] of a Go map: zero when the key is absent
MapGet_one(m, k) == IF k \in DOMAIN m THEN m[k] ELSE 1
MapGet(m, k) == IF k \in DOMAIN m THEN m[k] ELSE 0

\* make(map[string]int)
EmptyMap == << >>

\* poolStats[fields[0]]++ : an absent key starts from zero
MapInc_set(m, k) == [x \in DOMAIN m \cup {k} |-> IF x = k THEN 1 ELSE m[x]]
MapInc(m, k) == [x \in DOMAIN m \cup {k} |-> IF x = k THEN MapGet(m, k) + 1 ELSE m[x]]

\* analyzePoolScan's loop (main.go 205-215) over the lines the scanner
\* yields, starting from the map m
RECURSIVE AnalyzeLoop(_, _)
AnalyzeLoop(lines, m) ==
    IF lines = << >> THEN m
    ELSE LET fields == Fields(Head(lines))
         IN  AnalyzeLoop(Tail(lines),
                         IF Len(fields) >= 2 THEN MapInc(m, fields[1]) ELSE m)

\* the map analyzePoolScan returns for the lines read
PoolStats(lines) == AnalyzeLoop(lines, EmptyMap)

\* a write of src through a descriptor opened O_WRONLY without O_TRUNC, at
\* offset 0: the first Len(src) bytes are replaced, the rest stays
WriteAt0(old, src) ==
    IF Len(src) >= Len(old) THEN src
    ELSE src \o SubSeq(old, Len(src) + 1, Len(old))

\* os.OpenFile(tmpPath, O_CREATE|O_WRONLY, mode) followed by Close: creates
\* an empty file when none exists (owned by the process, mode less the
\* umask, layout inherited from the directory, which is still on the source
\* pool); opens the existing object otherwise, leaving it as it is
CreateObj(old, mode) ==
    IF old.kind = "none"
    THEN [kind |-> "file", data |-> <<>>, pool |-> SRC_POOL, mode |-> mode \ Umask,
          uid |-> ProcUid, gid |-> ProcGid, mtime |-> Now]
    ELSE old

\* os.Remove(tmpPath), result ignored: ok says whether the unlink succeeded
Remove_noop(f, p, ok) == f
Remove(f, p, ok) == IF ok THEN [f EXCEPT ![p] = None] ELSE f

----------------------------------------------------------------------------
(* State *)

VARIABLES
    fs,          \* the tree: path -> object
    scan,        \* the lines of pool_scan.tab
    dryRun,      \* --dry-run
    pc,          \* position in main / migrateFile
    exitCode,    \* os.Exit status: "" while running, then "0" or "1"; "killed"
                 \* when the process was killed
    poolStats,   \* result of analyzePoolScan
    lineCount, total, migrated, errors, bytesTotal,
    absPath,     \* path of the record being processed
    info,        \* os.Stat result for absPath
    currentPool, \* getXattr result for absPath
    err,         \* error returned by migrateFile ("" is nil)
    scanErr,     \* scanner.Err() of the second pass is non-nil
    anErr,       \* error analyzePoolScan returned: "", "open" or "read"
    \* history of the run, read by the properties only
    calls,       \* path -> migrateFile invocations in this run
    succ,        \* path -> migrateFile successes in this run
    prior,       \* paths that held such a file when this run started
    installed,   \* paths that hold a file a successful migrateFile put there
    nStat, nXattr,  \* os.Stat calls and getXattr calls in this run
    envFault,    \* os.Stat or getXattr failed in this run on an object that is there
    fsRun,       \* the tree when the run started
    fsPre,       \* the tree when migrateFile was entered
    recPool,     \* pool field of the current record
    trace,       \* steps migrateFile performed in the current invocation
    rmOK         \* every os.Remove of the current invocation succeeded

vars == << fs, scan, dryRun, pc, exitCode, poolStats, lineCount, total, migrated,
           errors, bytesTotal, absPath, info, currentPool, err, scanErr, anErr,
           calls, succ, prior, installed, nStat, nXattr, envFault, fsRun, fsPre,
           recPool, trace, rmOK >>

mainVars  == << poolStats, lineCount, total, migrated, errors, bytesTotal, scanErr,
               anErr >>
recVars   == << absPath, info, currentPool, recPool >>
histVars  == << calls, succ, prior, installed, nStat, nXattr, envFault, fsRun >>
migVars   == << err, fsPre, trace, rmOK >>

ZeroCalls == [p \in AllPaths |-> 0]

Init ==
    /\ fs \in { f \in [AllPaths -> InitObjs \cup InitLeaf] :
                  /\ f[Join(cephRoot, "a")] \in InitObjs
                  /\ f[Join(cephRoot, "a.mig")] \in InitObjs
                  /\ f[Join(cephRoot, "a.mig.mig")] \in InitLeaf }
    /\ scan \in ScanFiles
    /\ dryRun \in BOOLEAN
    /\ pc = "start"
    /\ exitCode = ""
    /\ poolStats = << >>
    /\ lineCount = 0 /\ total = 0 /\ migrated = 0 /\ errors = 0 /\ bytesTotal = 0
    /\ absPath = "" /\ info = NoInfo /\ currentPool = "" /\ err = ""
    /\ scanErr = FALSE /\ anErr = ""
    /\ calls = ZeroCalls /\ succ = ZeroCalls
    /\ prior = {} /\ installed = {}
    /\ nStat = 0 /\ nXattr = 0 /\ envFault = FALSE
    /\ fsRun = fs /\ fsPre = fs
    /\ recPool = ""
    /\ trace = << >>
    /\ rmOK = TRUE

----------------------------------------------------------------------------
(* main: analysis pass, gate, prompt *)

\* main.go 41-45 with analyzePoolScan 188-195: the scan file is missing or
\* cannot be opened; analyzePoolScan returns a nil map and the error, main
\* prints it and exits with status 1
AnalyzeFail ==
    /\ pc = "start"
    /\ poolStats' = EmptyMap /\ anErr' = "open"
    /\ pc' = "exit" /\ exitCode' = "1"
    /\ UNCHANGED << fs, scan, dryRun, lineCount, total, migrated, errors, bytesTotal,
                    scanErr, recVars, histVars, migVars >>

\* main.go 41-45 with analyzePoolScan 199-218: the scanner of the analysis
\* pass stops on a read error after k lines (an I/O fault, or a line longer
\* than the scanner's default buffer); analyzePoolScan returns the counts so
\* far and scanner.Err(), main prints the error and exits with status 1
AnalyzeReadFault ==
    /\ pc = "start"
    /\ \E k \in 0..Len(scan) : poolStats' = PoolStats(SubSeq(scan, 1, k))
    /\ anErr' = "read"
    /\ pc' = "exit" /\ exitCode' = "1"
    /\ UNCHANGED << fs, scan, dryRun, lineCount, total, migrated, errors, bytesTotal,
                    scanErr, recVars, histVars, migVars >>

\* main.go 41-63: the analysis pass succeeds; with no record of the source
\* pool the run ends with status 0
Analyze ==
    /\ pc = "start"
    /\ poolStats' = PoolStats(scan)
    /\ IF MapGet(poolStats', SRC_POOL) = 0
       THEN pc' = "exit" /\ exitCode' = "0"
       ELSE pc' = (IF dryRun THEN "open" ELSE "confirm") /\ exitCode' = exitCode
    /\ UNCHANGED << fs, scan, dryRun, lineCount, total, migrated, errors, bytesTotal,
                    scanErr, anErr, recVars, histVars, migVars >>

\* main.go 65-73: the operator answers the prompt
Confirm ==
    /\ pc = "confirm"
    /\ \E yes \in BOOLEAN :
         IF yes THEN pc' = "open" /\ exitCode' = exitCode
                ELSE pc' = "exit" /\ exitCode' = "0"
    /\ UNCHANGED << fs, scan, dryRun, mainVars, recVars, histVars, migVars >>

\* main.go 75-95: counters start at zero, the scan file is opened again
OpenScan ==
    /\ pc = "open"
    /\ total' = 0 /\ migrated' = 0 /\ errors' = 0 /\ bytesTotal' = 0 /\ lineCount' = 0
    /\ \E ok \in BOOLEAN :
         IF ok THEN pc' = "scan" /\ exitCode' = exitCode
               ELSE pc' = "exit" /\ exitCode' = "1"
    /\ UNCHANGED << fs, scan, dryRun, poolStats, scanErr, anErr, recVars, histVars,
                    migVars >>

----------------------------------------------------------------------------
(* main: the second pass, one record at a time *)

\* main.go 97-117: the next line is read and split; lines with fewer than
\* two fields and records of another pool are passed over
ScanLine ==
    /\ pc = "scan"
    /\ lineCount < Len(scan)
    /\ lineCount' = lineCount + 1
    /\ LET fields == Fields(scan[lineCount + 1])
       IN  IF Len(fields) < 2
           THEN /\ pc' = "scan"
                /\ recPool' = ""
                /\ UNCHANGED << total, absPath >>
           ELSE /\ total' = total + 1
                /\ recPool' = fields[1]
                /\ IF fields[1] # SRC_POOL
                   THEN pc' = "scan" /\ absPath' = absPath
                   ELSE pc' = "stat" /\ absPath' = Join(cephRoot, fields[2])
    /\ UNCHANGED << fs, scan, dryRun, exitCode, poolStats, migrated, errors, bytesTotal,
                    scanErr, anErr, info, currentPool, histVars, migVars >>

\* main.go 97, 170-176: scanner.Scan() returns false, at the end of the
\* file or on a read error, which is printed
ScanEnd ==
    /\ pc = "scan"
    /\ \E fault \in BOOLEAN :
         /\ (~fault) => lineCount = Len(scan)
         /\ scanErr' = fault
    /\ pc' = "summary"
    /\ UNCHANGED << fs, scan, dryRun, exitCode, poolStats, lineCount, total, migrated,
                    errors, bytesTotal, anErr, recVars, histVars, migVars >>

\* the loop body is left: its variables (absPath, info, currentPool) go out
\* of scope and the next line is read
Continue_abort ==
    /\ pc' = "exit"
    /\ absPath' = "" /\ info' = NoInfo /\ currentPool' = ""
Continue ==
    /\ pc' = "scan"
    /\ absPath' = "" /\ info' = NoInfo /\ currentPool' = ""

\* main.go 119-131: os.Stat of the record's path; a failure is counted, a
\* directory is passed over
Stat ==
    /\ pc = "stat"
    /\ nStat' = nStat + 1
    /\ \E ok \in BOOLEAN :
         /\ ok => fs[absPath].kind # "none"
         /\ envFault' = (envFault \/ (~ok /\ fs[absPath].kind # "none"))
         /\ IF ~ok
            THEN /\ errors' = errors + 1
                 /\ Continue
            ELSE /\ errors' = errors
                 /\ IF FileInfo(fs[absPath]).isDir
                    THEN Continue
                    ELSE /\ info' = FileInfo(fs[absPath])
                         /\ pc' = "xattr"
                         /\ UNCHANGED << absPath, currentPool >>
    /\ UNCHANGED << fs, scan, dryRun, exitCode, poolStats, lineCount, total, migrated,
                    bytesTotal, scanErr, anErr, recPool,
                    calls, succ, prior, installed, nXattr, fsRun, migVars >>

\* getXattr (main.go 221-230): the value of the placement attribute
getXattr_stale(f, path) == SRC_POOL
getXattr(f, path) == f[path].pool

\* main.go 150, 161: an eligible file is migrated unless --dry-run is set
AfterCheck_always(dry) == "create"
AfterCheck(dry) == IF dry THEN "dry" ELSE "create"

\* main.go 133-151: the live attribute is read; an error or a value other
\* than the source pool is counted as an error; otherwise the file is
\* migrated, or counted in a dry run
GetXattr ==
    /\ pc = "xattr"
    /\ nXattr' = nXattr + 1
    /\ \E ok \in BOOLEAN :
         /\ envFault' = (envFault \/ (~ok /\ getXattr(fs, absPath) = SRC_POOL))
         /\ IF ~ok \/ getXattr(fs, absPath) # SRC_POOL
            THEN /\ errors' = errors + 1
                 /\ Continue
                 /\ UNCHANGED << calls, migVars >>
            ELSE /\ errors' = errors
                 /\ currentPool' = getXattr(fs, absPath)
                 /\ UNCHANGED << absPath, info >>
                 /\ pc' = AfterCheck(dryRun)
                 /\ IF pc' = "dry"
                    THEN UNCHANGED << calls, migVars >>
                    ELSE /\ calls' = [calls EXCEPT ![absPath] = @ + 1]
                         /\ fsPre' = fs /\ trace' = << >> /\ rmOK' = TRUE /\ err' = ""
    /\ UNCHANGED << fs, scan, dryRun, exitCode, poolStats, lineCount, total, migrated,
                    bytesTotal, scanErr, anErr, recPool,
                    succ, prior, installed, nStat, fsRun >>

\* main.go 161-167 without the byte count
DryRunCount_nobytes ==
    /\ pc = "dry"
    /\ migrated' = migrated + 1
    /\ bytesTotal' = bytesTotal
    /\ Continue
    /\ UNCHANGED << fs, scan, dryRun, exitCode, poolStats, lineCount, total, errors,
                    scanErr, anErr, recPool, histVars, migVars >>

\* main.go 161-167: a dry run counts the file as migrated
DryRunCount ==
    /\ pc = "dry"
    /\ migrated' = migrated + 1
    /\ bytesTotal' = bytesTotal + info.size
    /\ Continue
    /\ UNCHANGED << fs, scan, dryRun, exitCode, poolStats, lineCount, total, errors,
                    scanErr, anErr, recPool, histVars, migVars >>

\* main.go 151-160 with migrated++ moved out of the else branch
MigrateReturn_both ==
    /\ pc = "ret"
    /\ IF err # ""
       THEN /\ errors' = errors + 1
            /\ migrated' = migrated + 1
            /\ UNCHANGED << bytesTotal, succ >>
       ELSE /\ migrated' = migrated + 1
            /\ bytesTotal' = bytesTotal + info.size
            /\ errors' = errors
            /\ succ' = [succ EXCEPT ![absPath] = @ + 1]
    /\ Continue
    /\ err' = "" /\ trace' = << >> /\ rmOK' = TRUE /\ fsPre' = fs
    /\ UNCHANGED << fs, scan, dryRun, exitCode, poolStats, lineCount, total, scanErr,
                    anErr, recPool, calls, prior, installed, nStat, nXattr, envFault,
                    fsRun >>

\* main.go 151-160: the result of migrateFile is counted
MigrateReturn ==
    /\ pc = "ret"
    /\ IF err # ""
       THEN /\ errors' = errors + 1
            /\ UNCHANGED << migrated, bytesTotal, succ >>
       ELSE /\ migrated' = migrated + 1
            /\ bytesTotal' = bytesTotal + info.size
            /\ errors' = errors
            /\ succ' = [succ EXCEPT ![absPath] = @ + 1]
    /\ Continue
    /\ err' = "" /\ trace' = << >> /\ rmOK' = TRUE /\ fsPre' = fs
    /\ UNCHANGED << fs, scan, dryRun, exitCode, poolStats, lineCount, total, scanErr,
                    anErr, recPool, calls, prior, installed, nStat, nXattr, envFault,
                    fsRun >>

\* main.go 170-185: the summary is printed and main returns
Summary ==
    /\ pc = "summary"
    /\ pc' = "exit" /\ exitCode' = "0"
    /\ UNCHANGED << fs, scan, dryRun, mainVars, recVars, histVars, migVars >>

\* the operator starts the tool again on the same tree and scan file
Rerun ==
    /\ pc = "exit"
    /\ prior' = installed
    /\ pc' = "start" /\ exitCode' = ""
    /\ poolStats' = << >>
    /\ lineCount' = 0 /\ total' = 0 /\ migrated' = 0 /\ errors' = 0 /\ bytesTotal' = 0
    /\ absPath' = "" /\ info' = NoInfo /\ currentPool' = "" /\ err' = ""
    /\ scanErr' = FALSE /\ anErr' = ""
    /\ calls' = ZeroCalls /\ succ' = ZeroCalls
    /\ nStat' = 0 /\ nXattr' = 0 /\ envFault' = FALSE
    /\ fsRun' = fs /\ fsPre' = fs
    /\ recPool' = "" /\ trace' = << >> /\ rmOK' = TRUE
    /\ UNCHANGED << fs, scan, dryRun, installed >>

----------------------------------------------------------------------------
(* migrateFile(path, info), main.go 232-290.  path is absPath, info the    *)
(* snapshot os.Stat returned for it.                                       *)

\* what migrateFile leaves alone
migFrame == << scan, dryRun, exitCode, mainVars, recVars, calls, succ, prior,
               nStat, nXattr, envFault, fsRun, fsPre >>

\* a step failed after the temporary file was created: os.Remove(tmpPath),
\* whose result is ignored, then the step's error is returned
FailStep(step, f) ==
    /\ \E ok \in BOOLEAN :
         /\ fs' = Remove(f, tmpPath(absPath), ok)
         /\ rmOK' = (rmOK /\ ok)
    /\ installed' = { p \in installed : fs'[p].kind # "none" }
    /\ err' = step
    /\ pc' = "ret"
    /\ trace' = Append(trace, step)

\* a step succeeded and left the tree f
PassStep(step, next, f) ==
    /\ fs' = f
    /\ pc' = next
    /\ trace' = Append(trace, step)
    /\ installed' = { p \in installed : f[p].kind # "none" }
                    \cup (IF step = "rename" THEN {absPath} ELSE {})
    /\ UNCHANGED << err, rmOK >>

\* main.go 235-239: os.OpenFile(tmpPath, O_CREATE|O_WRONLY, info.Mode()),
\* then Close; on an error migrateFile returns at once
MigCreate ==
    /\ pc = "create"
    /\ LET tmp == tmpPath(absPath)
       IN  \/ /\ fs[tmp].kind # "dir"
              /\ PassStep("create", "setxattr",
                          [fs EXCEPT ![tmp] = CreateObj(@, info.mode)])
           \/ /\ err' = "create"
              /\ pc' = "ret"
              /\ trace' = Append(trace, "create")
              /\ UNCHANGED << fs, rmOK, installed >>
    /\ UNCHANGED migFrame

\* the object after unix.Setxattr(tmpPath, XATTR_KEY, []byte(DST_POOL), 0)
Setxattr_src(o) == [o EXCEPT !.pool = SRC_POOL]
Setxattr(o) == [o EXCEPT !.pool = DST_POOL]

\* main.go 241-244: unix.Setxattr(tmpPath, XATTR_KEY, DST_POOL, 0)
MigSetxattr ==
    /\ pc = "setxattr"
    /\ LET tmp == tmpPath(absPath)
       IN  \/ PassStep("setxattr", "opensrc", [fs EXCEPT ![tmp] = Setxattr(@)])
           \/ FailStep("setxattr", fs)
    /\ UNCHANGED migFrame

\* main.go 246-250: os.Open(path)
MigOpenSrc ==
    /\ pc = "opensrc"
    /\ \/ PassStep("opensrc", "opendst", fs)
       \/ FailStep("opensrc", fs)
    /\ UNCHANGED migFrame

\* main.go 252-257: os.OpenFile(tmpPath, O_WRONLY, 0)
MigOpenDst ==
    /\ pc = "opendst"
    /\ \/ PassStep("opendst", "copy", fs)
       \/ FailStep("opendst", fs)
    /\ UNCHANGED migFrame

\* main.go 259-265: io.Copy(dstFile, srcFile); on a fault the first k
\* bytes of the source have been written
MigCopy ==
    /\ pc = "copy"
    /\ LET tmp == tmpPath(absPath)
           src == fs[absPath].data
           written(n) == [fs EXCEPT ![tmp].data  = WriteAt0(@, SubSeq(src, 1, n)),
                                    ![tmp].mtime = Now]
       IN  \/ PassStep("copy", "chmod", written(Len(src)))
           \/ \E k \in 0..Len(src) : FailStep("copy", written(k))
    /\ UNCHANGED migFrame

\* main.go 267-270: os.Chmod(tmpPath, info.Mode())
MigChmod ==
    /\ pc = "chmod"
    /\ LET tmp == tmpPath(absPath)
       IN  \/ PassStep("chmod", "chown", [fs EXCEPT ![tmp].mode = info.mode])
           \/ FailStep("chmod", fs)
    /\ UNCHANGED migFrame

\* main.go 272: info.Sys().(*unix.Stat_t); the value os.Stat stores behind
\* Sys() is a *syscall.Stat_t
SysIsUnixStat(i) == i.sys = "unix.Stat_t"

\* main.go 272-277: os.Chown(tmpPath, stat.Uid, stat.Gid) when the type
\* assertion holds, nothing otherwise
MigChown ==
    /\ pc = "chown"
    /\ LET tmp == tmpPath(absPath)
       IN  IF SysIsUnixStat(info)
           THEN \/ PassStep("chown", "chtimes",
                            [fs EXCEPT ![tmp].uid = info.uid, ![tmp].gid = info.gid])
                \/ FailStep("chown", fs)
           ELSE /\ pc' = "chtimes"
                /\ UNCHANGED << fs, err, rmOK, trace, installed >>
    /\ UNCHANGED migFrame

\* main.go 279-282: os.Chtimes(tmpPath, time.Now(), info.ModTime())
MigChtimes ==
    /\ pc = "chtimes"
    /\ LET tmp == tmpPath(absPath)
       IN  \/ PassStep("chtimes", "rename", [fs EXCEPT ![tmp].mtime = info.mtime])
           \/ FailStep("chtimes", fs)
    /\ UNCHANGED migFrame

\* main.go 284-289: os.Rename(tmpPath, path), then return nil
MigRename ==
    /\ pc = "rename"
    /\ LET tmp == tmpPath(absPath)
       IN  \/ PassStep("rename", "ret", [fs EXCEPT ![absPath] = fs[tmp], ![tmp] = None])
           \/ FailStep("rename", fs)
    /\ UNCHANGED migFrame

\* the process is killed inside migrateFile, before os.Rename has returned:
\* nothing more runs, no cleanup either; a kill during io.Copy leaves the
\* first k bytes written
Kill ==
    /\ pc \in {"create", "setxattr", "opensrc", "opendst", "copy", "chmod", "chown",
               "chtimes", "rename"}
    /\ pc' = "exit" /\ exitCode' = "killed"
    /\ \/ fs' = fs
       \/ /\ pc = "copy"
          /\ \E k \in 1..Len(fs[absPath].data) :
                fs' = [fs EXCEPT ![tmpPath(absPath)].data  =
                                     WriteAt0(@, SubSeq(fs[absPath].data, 1, k)),
                                 ![tmpPath(absPath)].mtime = Now]
    /\ UNCHANGED << scan, dryRun, mainVars, recVars, histVars, migVars >>

----------------------------------------------------------------------------

Next ==
    \/ AnalyzeFail \/ AnalyzeReadFault \/ Analyze \/ Confirm \/ OpenScan
    \/ ScanLine \/ ScanEnd \/ Stat \/ GetXattr \/ DryRunCount
    \/ MigCreate \/ MigSetxattr \/ MigOpenSrc \/ MigOpenDst \/ MigCopy
    \/ MigChmod \/ MigChown \/ MigChtimes \/ MigRename
    \/ MigrateReturn \/ Summary \/ Kill \/ Rerun

Spec == Init /\ [][Next]_vars

\* one run of the tool from start to exit; the process keeps getting
\* scheduled and every system call returns
NextOnce ==
    \/ AnalyzeFail \/ AnalyzeReadFault \/ Analyze \/ Confirm \/ OpenScan
    \/ ScanLine \/ ScanEnd \/ Stat \/ GetXattr \/ DryRunCount
    \/ MigCreate \/ MigSetxattr \/ MigOpenSrc \/ MigOpenDst \/ MigCopy
    \/ MigChmod \/ MigChown \/ MigChtimes \/ MigRename
    \/ MigrateReturn \/ Summary

Run == Init /\ [][NextOnce]_vars /\ WF_vars(NextOnce)

TypeOK ==
    /\ pc \in {"start", "confirm", "open", "scan", "stat", "xattr", "dry", "create",
               "setxattr", "opensrc", "opendst", "copy", "chmod", "chown", "chtimes",
               "rename", "ret", "summary", "exit"}
    /\ exitCode \in {"", "0", "1", "killed"}
    /\ anErr \in {"", "open", "read"}
    /\ anErr # "" => pc = "exit" /\ exitCode = "1"
    /\ \A p \in AllPaths : fs[p].kind \in {"none", "dir", "file", "other"}

----------------------------------------------------------------------------
(* Properties *)

\* positions inside migrateFile
MigPcs == {"create", "setxattr", "opensrc", "opendst", "copy", "chmod", "chown",
           "chtimes", "rename"}

\* migrateFile has returned an error / has returned nil
Failed    == pc = "ret" /\ err # ""
Succeeded == pc = "ret" /\ err = ""

\* C1 (crash-safety): when migrateFile(P) returns an error, whichever step
\* failed (rename included), the object at P - content, placement attribute,
\* mode, owner, modification time - is the one that was there at the call.
C1_CrashSafety == Failed => fs[absPath] = fsPre[absPath]

\* a rename failed after a complete copy which was then left behind, and P is
\* still the original
C1_Witness ==
    /\ Failed /\ err = "rename" /\ ~rmOK
    /\ fsPre[absPath].kind = "file"
    /\ fs[tmpPath(absPath)].data = fsPre[absPath].data
    /\ fs[tmpPath(absPath)].pool = DST_POOL
    /\ fs[absPath] = fsPre[absPath]

\* C2 (round-trip fidelity): after a successful migrateFile(P), whatever was
\* at P.mig before, P has the content it had before and carries the
\* destination pool.
C2_RoundTrip ==
    Succeeded => /\ fs[absPath].data = fsPre[absPath].data
                 /\ fs[absPath].pool = DST_POOL

\* C3 (attribute ordering): when the attribute is set on P.mig, and from then
\* until the copy starts, P.mig is empty, whatever was at P.mig before.
C3_AttrOrdering ==
    pc \in {"setxattr", "opensrc", "opendst", "copy"}
        => fs[tmpPath(absPath)].data = << >>

\* C4 (eligibility gate): migrateFile runs only for a record of the source
\* pool whose path was stat'ed and whose live attribute, read in the step
\* that enters migrateFile with the tree as the stat saw it, is the source
\* pool; a record of any other pool causes no stat, no attribute read and no
\* change of the tree.
C4_Gate ==
    [][ /\ (pc # "create" /\ pc' = "create") =>
              /\ pc = "xattr"
              /\ recPool = SRC_POOL
              /\ nStat >= 1 /\ nXattr' = nXattr + 1
              /\ info = FileInfo(fs[absPath])
              /\ fs[absPath].kind # "none"
              /\ fs[absPath].pool = SRC_POOL
              /\ currentPool' = SRC_POOL
              /\ fs' = fs /\ fsPre' = fs
        /\ (pc' \in MigPcs) => (recPool' = SRC_POOL /\ fsPre'[absPath'].pool = SRC_POOL)
        /\ (pc = "scan" /\ lineCount' = lineCount + 1 /\ recPool' # SRC_POOL) =>
              /\ pc' = "scan"
              /\ nStat' = nStat /\ nXattr' = nXattr
              /\ fs' = fs /\ calls' = calls
              /\ migrated' = migrated /\ errors' = errors
      ]_vars

\* migrateFile is entered on the second line, after a record of a third pool
\* was passed over without a stat
C4_Witness ==
    /\ pc = "create" /\ lineCount = 2 /\ nStat = 1 /\ nXattr = 1 /\ total = 2
    /\ Fields(scan[1]) = << THIRD_POOL, "a" >>
    /\ fs = fsRun

\* C5 as stated (idempotence): no migrateFile for a record whose live
\* attribute is the destination pool; a later run never invokes migrateFile
\* for a file an earlier run migrated; within a run migrateFile is invoked at
\* most once per path.
C5_Original ==
    /\ pc \in MigPcs => fsPre[absPath].pool # DST_POOL
    /\ \A p \in prior \cap installed : calls[p] = 0
    /\ \A p \in AllPaths : calls[p] <= 1

\* C5 as amended: a record whose live attribute is the destination pool is
\* counted as an error and nothing is changed; migrateFile is never invoked,
\* in this run or a later one, for a path that holds a file put there by a
\* successful migrateFile, so no path is migrated successfully twice while
\* that file stays; a path whose migration failed may be tried again.
C5_Idempotence ==
    [][ /\ (pc = "xattr" /\ fs[absPath].pool = DST_POOL) =>
              /\ errors' = errors + 1 /\ pc' = "scan"
              /\ fs' = fs /\ calls' = calls /\ migrated' = migrated
        /\ (pc # "create" /\ pc' = "create") => absPath \notin installed
        /\ \A p \in installed' : fs'[p].pool = DST_POOL
      ]_vars

\* in a later run the record of a file an earlier run migrated has just been
\* skipped
C5_Witness ==
    /\ pc = "scan" /\ lineCount = 1 /\ errors = 1 /\ nXattr = 1
    /\ Join(cephRoot, "a") \in prior \cap installed
    /\ Fields(scan[1]) = << SRC_POOL, "a" >>
    /\ calls = ZeroCalls

\* C6 as stated (temporary-file cleanup): when migrateFile returns, with an
\* error of any step or with success, and every removal worked, nothing is
\* at P.mig.
C6_Original ==
    (pc = "ret" /\ rmOK) => fs[tmpPath(absPath)].kind = "none"

\* C6 as amended: P.mig is the only path besides P that migrateFile touches;
\* when it returns after a failure of steps 2-7 (removal working) or after
\* success nothing is at P.mig; when step 1 fails nothing was created and
\* P.mig is as it was before the call.
C6_Cleanup ==
    /\ (pc \in MigPcs \/ pc = "ret") =>
          \A p \in AllPaths \ {absPath, tmpPath(absPath)} : fs[p] = fsPre[p]
    /\ (pc = "ret" /\ rmOK /\ err # "create") => fs[tmpPath(absPath)].kind = "none"
    /\ (pc = "ret" /\ err = "create") => fs[tmpPath(absPath)] = fsPre[tmpPath(absPath)]

\* a copy failed half way and P.mig was removed
C6_Witness ==
    /\ Failed /\ err = "copy" /\ rmOK
    /\ fsPre[tmpPath(absPath)].kind = "none"
    /\ fs[tmpPath(absPath)].kind = "none"
    /\ trace = << "create", "setxattr", "opensrc", "opendst", "copy" >>

\* C7 (collision): when something is at P.mig as migrateFile(P) starts, step
\* 1 fails and no later step is reached.
C7_Collision ==
    (pc \in MigPcs \ {"create"} \/ (pc = "ret" /\ err # "create"))
        => fsPre[tmpPath(absPath)].kind = "none"

\* C8 (metadata fidelity): after a successful migrateFile(P) the file at P
\* has the mode, owner, group and modification time of the stat snapshot.
C8_Metadata ==
    Succeeded => /\ fs[absPath].mode  = info.mode
                 /\ fs[absPath].uid   = info.uid
                 /\ fs[absPath].gid   = info.gid
                 /\ fs[absPath].mtime = info.mtime

\* C9 (regular files only): migrateFile is invoked only for a path that
\* holds a regular file.
C9_RegularOnly ==
    pc \in MigPcs => fsPre[absPath].kind = "file"

\* C10 (dry run): in a dry run no step changes the tree, migrateFile is never
\* entered, and a record that passed the pool filter, the stat, the directory
\* test and the attribute check adds one to migrated and its size to
\* bytesTotal.
C10_DryRun ==
    [][ dryRun =>
          /\ fs' = fs /\ fs' = fsRun'
          /\ pc' \notin MigPcs \cup {"ret"}
          /\ calls' = ZeroCalls /\ trace' = << >>
          /\ (pc = "xattr" /\ pc' # "scan") =>
                (pc' = "dry" /\ info = FileInfo(fs[absPath]) /\ ~info.isDir
                 /\ fs[absPath].pool = SRC_POOL /\ recPool = SRC_POOL)
          /\ (pc = "dry") =>
                /\ migrated' = migrated + 1
                /\ bytesTotal' = bytesTotal + Len(fs[absPath].data)
                /\ errors' = errors
      ]_vars

\* a dry run ended after counting one file of one byte, which is unchanged
C10_Witness ==
    /\ dryRun /\ pc = "exit" /\ exitCode = "0"
    /\ migrated = 1 /\ bytesTotal = 1 /\ lineCount = Len(scan)
    /\ fs = fsRun
    /\ fs[Join(cephRoot, "a")].pool = SRC_POOL


\* the lines of the scan file that are records of pool: at least two fields,
\* the first one being pool
RecordsOf(lines, pool) ==
    { i \in 1..Len(lines) : Len(Fields(lines[i])) >= 2 /\ Fields(lines[i])[1] = pool }

\* C11 (zero-eligible short-circuit): when the scan file has no well-formed
\* record of the source pool, whatever other pools it lists, the run never
\* enters the second pass: no stat, no attribute read, no call of migrateFile,
\* no change of the tree; and the step that ends a readable analysis ends
\* the run with status 0.
C11_ZeroEligible ==
    [][ RecordsOf(scan, SRC_POOL) = {} =>
          /\ pc' \in {"start", "exit"}
          /\ nStat' = 0 /\ nXattr' = 0 /\ calls' = ZeroCalls
          /\ fs' = fs
          /\ (pc = "start" /\ anErr' = "") =>
                (pc' = "exit" /\ exitCode' = "0" /\ MapGet(poolStats', SRC_POOL) = 0)
      ]_vars

\* a scan file listing only the destination pool and a third pool ended the
\* run with status 0 after the analysis
C11_Witness ==
    /\ pc = "exit" /\ exitCode = "0"
    /\ Len(scan) = 2 /\ RecordsOf(scan, SRC_POOL) = {}
    /\ DOMAIN poolStats = {DST_POOL, THIRD_POOL}
    /\ nStat = 0 /\ nXattr = 0 /\ calls = ZeroCalls /\ fs = fsRun

\* C13 (scan read fault), as claimed: a read fault on the scan file is
\* non-fatal in both passes - after a fault in the analysis pass the run
\* does not abort with status 1, and after a fault in the second pass the
\* run ends through the summary with status 0.
C13_ReadFault ==
    /\ anErr = "read" => exitCode # "1"
    /\ (scanErr /\ pc = "exit") => exitCode = "0"

\* C14 (distribution accounting): the map a completed analysis returns has
\* exactly the pools that have a record as keys, and maps each of them to
\* the number of its records; lines with fewer than two fields count nowhere.
C14_Distribution ==
    [][ (pc = "start" /\ pc' # "start" /\ anErr' = "") =>
          (/\ DOMAIN poolStats' =
                 { q \in {SRC_POOL, DST_POOL, THIRD_POOL, WS} : RecordsOf(scan, q) # {} }
           /\ \A q \in DOMAIN poolStats' :
                 poolStats'[q] = Cardinality(RecordsOf(scan, q)))
      ]_vars

\* two records of the source pool were counted under one key
C14_Witness ==
    /\ pc # "start" /\ anErr = ""
    /\ Len(scan) = 2
    /\ DOMAIN poolStats = {SRC_POOL} /\ poolStats[SRC_POOL] = 2


\* positions of the second pass at which a record is being handled
RecPcs == {"stat", "xattr", "dry", "ret"} \cup MigPcs

\* a step taken while a record is handled: it does not end the run; a stat
\* failure, an attribute read failure, an attribute mismatch and a failed
\* migrateFile each add exactly one to errors, leave the other counters alone
\* and hand control back to the loop at the next line of the same scan file
ErrorIsolated ==
    pc \in RecPcs =>
        /\ pc' # "exit" /\ exitCode' = ""
        /\ errors' \in {errors, errors + 1}
        /\ (pc = "stat" /\ fs[absPath].kind = "none") => errors' = errors + 1
        /\ (pc = "stat" /\ pc' = "scan" /\ fs[absPath].kind # "dir")
               => errors' = errors + 1
        /\ (pc = "xattr" /\ getXattr(fs, absPath) # SRC_POOL) => errors' = errors + 1
        /\ (pc = "xattr" /\ pc' = "scan") => errors' = errors + 1
        /\ (pc = "ret" /\ err # "") => errors' = errors + 1
        /\ (pc \in MigPcs /\ err' # "") => (pc' = "ret" /\ errors' = errors)
        /\ (errors' = errors + 1) =>
               (/\ pc' = "scan" /\ lineCount' = lineCount /\ scan' = scan
                /\ migrated' = migrated /\ bytesTotal' = bytesTotal
                /\ total' = total /\ dryRun' = dryRun)

\* C12 (per-file error isolation): a file-level error on one record is
\* counted exactly once and never aborts the batch - the loop goes on with
\* the next line - and the second pass always reaches the final summary.
C12_Isolation ==
    /\ [][ErrorIsolated]_vars
    /\ [](pc \in RecPcs \cup {"scan"} => <>(pc = "summary"))

\* the first record failed inside migrateFile, was counted once, and the
\* second record of the same scan file was then migrated
C12_Witness ==
    /\ pc = "summary" /\ ~scanErr
    /\ Len(scan) = 2 /\ lineCount = 2
    /\ errors = 1 /\ migrated = 1
    /\ calls[Join(cephRoot, "a")] = 2


\* the seven operations of migrateFile, in the order of the code
SevenSteps == << "create", "setxattr", "copy", "chmod", "chown", "chtimes", "rename" >>

IsStep(x) == \E i \in 1..Len(SevenSteps) : SevenSteps[i] = x

\* C15 (strict step order), as claimed: a successful migrateFile has
\* performed create, setxattr, copy, chmod, chown, chtimes and rename on the
\* temporary path exactly once each and in this order; before the rename
\* nothing has changed at P; and a step is attempted only when no earlier
\* step has failed.
C15_StepOrder ==
    /\ Succeeded => SelectSeq(trace, IsStep) = SevenSteps
    /\ pc \in MigPcs => fs[absPath] = fsPre[absPath]
    /\ pc \in MigPcs => err = ""

\* C16 (kill-safety and re-run), as claimed: when the process is killed
\* inside migrateFile(P), P is the object it was at the call and no path
\* other than P.mig has changed; and a migrateFile(P) that starts with a
\* file already at P.mig and succeeds leaves P with the content it had and
\* nothing at P.mig.
C16_KillSafety ==
    /\ (pc = "exit" /\ exitCode = "killed") =>
           \A p \in AllPaths \ {tmpPath(absPath)} : fs[p] = fsPre[p]
    /\ (Succeeded /\ fsPre[tmpPath(absPath)].kind = "file") =>
           /\ fs[absPath].data = fsPre[absPath].data
           /\ fs[tmpPath(absPath)].kind = "none"

\* C17 (frame), as claimed: every object that existed when the run started
\* still exists and has the content it had.
C17_Frame ==
    \A p \in AllPaths :
        fsRun[p].kind # "none" =>
            (fs[p].kind # "none" /\ fs[p].data = fsRun[p].data)


\* total of a per-path counter
RECURSIVE SumOver(_, _)
SumOver(f, S) ==
    IF S = {} THEN 0
    ELSE LET p == CHOOSE x \in S : TRUE IN f[p] + SumOver(f, S \ {p})

\* what one step does to the counters: reading a line changes none of them;
\* the step that ends the handling of a source-pool record does exactly one
\* of migrated+1 with bytes + stat size, errors+1, or nothing for a
\* directory; no other step of the handling changes them
CountedOnce ==
    /\ pc = "scan" =>
          (migrated' = migrated /\ errors' = errors /\ bytesTotal' = bytesTotal)
    /\ (pc \in RecPcs /\ pc' = "scan") =>
          \/ /\ migrated' = migrated + 1 /\ bytesTotal' = bytesTotal + info.size
             /\ errors' = errors
          \/ /\ errors' = errors + 1
             /\ migrated' = migrated /\ bytesTotal' = bytesTotal
          \/ /\ pc = "stat" /\ fs[absPath].kind = "dir"
             /\ migrated' = migrated /\ bytesTotal' = bytesTotal /\ errors' = errors
    /\ (pc \in RecPcs /\ pc' \notin {"scan", "start"}) =>
          (migrated' = migrated /\ errors' = errors /\ bytesTotal' = bytesTotal)

\* the counters against the lines read so far: every source-pool record read
\* was looked at once, migrated + errors never exceeds their number nor the
\* count of the analysis, and a real run counts one migrated per successful
\* migrateFile
CountersBounded ==
    /\ nStat + (IF pc = "stat" THEN 1 ELSE 0)
          = Cardinality(RecordsOf(SubSeq(scan, 1, lineCount), SRC_POOL))
    /\ migrated + errors <= nStat
    /\ migrated + errors <= MapGet(poolStats, SRC_POOL)
    /\ ~dryRun => migrated = SumOver(succ, AllPaths)
    /\ dryRun => SumOver(calls, AllPaths) = 0

\* C18 (counter accounting): every source-pool record the second pass reads
\* causes exactly one of migrated+1 (bytes increased by the stat size),
\* errors+1 or a silent skip of a directory; other lines change neither
\* counter; migrated + errors is at most the source-pool count of the
\* analysis; in a real run migrated is the number of migrateFile calls that
\* returned nil.
C18_Accounting == [][CountedOnce]_vars /\ []CountersBounded

\* a real run over two source-pool records ended with one file migrated and
\* one error, against an analysis count of two
C18_Witness ==
    /\ pc = "exit" /\ exitCode = "0" /\ ~dryRun /\ ~scanErr
    /\ MapGet(poolStats, SRC_POOL) = 2 /\ lineCount = 2
    /\ migrated = 1 /\ errors = 1 /\ bytesTotal = 1
    /\ SumOver(succ, AllPaths) = 1


\* main.go 97-168 with --dry-run, as a function of the scan file and the
\* tree, when os.Stat fails only for a missing path and getXattr does not
\* fail: the counters after the lines, starting from c
RECURSIVE DryLoop(_, _, _)
DryLoop(lines, f, c) ==
    IF lines = << >> THEN c
    ELSE LET fields == Fields(Head(lines))
             rest   == Tail(lines)
         IN  IF Len(fields) < 2 \/ fields[1] # SRC_POOL
             THEN DryLoop(rest, f, c)
             ELSE LET path == Join(cephRoot, fields[2])
                  IN  IF f[path].kind = "none"
                      THEN DryLoop(rest, f, [c EXCEPT !.errors = @ + 1])
                      ELSE IF FileInfo(f[path]).isDir
                      THEN DryLoop(rest, f, c)
                      ELSE IF getXattr(f, path) # SRC_POOL
                      THEN DryLoop(rest, f, [c EXCEPT !.errors = @ + 1])
                      ELSE DryLoop(rest, f,
                                   [c EXCEPT !.migrated = @ + 1,
                                             !.bytes = @ + FileInfo(f[path]).size])

\* what a dry run over the scan file reports for the tree f
DryCounts(f) == DryLoop(scan, f, [migrated |-> 0, bytes |-> 0, errors |-> 0])

\* what this run reports
Counts == [migrated |-> migrated, bytes |-> bytesTotal, errors |-> errors]

\* the run has read the whole scan file, os.Stat and getXattr did not fail on
\* an object that is there, and every call of migrateFile returned nil
CleanRun ==
    /\ pc = "summary" /\ ~scanErr /\ ~envFault
    /\ SumOver(calls, AllPaths) = SumOver(succ, AllPaths)

\* the paths of the source-pool records, by line
RecPath(i) == Join(cephRoot, Fields(scan[i])[2])

\* no two source-pool records name the same path, and none names the
\* temporary path of another
NoAlias ==
    \A i, j \in RecordsOf(scan, SRC_POOL) :
        /\ i # j => RecPath(i) # RecPath(j)
        /\ RecPath(i) # tmpPath(RecPath(j))

====
